---- MODULE Spec2Model ----
(***************************************************************************)
(* Model of textmap/transformers.py: the information-weight kernel         *)
(* (numba_info_weight_matrix, info_weight_matrix) and the sparse           *)
(* multinomial EM kernel (numba_multinomial_em_sparse,                     *)
(* multinomial_em_sparse).                                                 *)
(*                                                                         *)
(* Floating point is modelled as decimal fixed point: a finite float x is  *)
(* the integer round(x * SCALE), every product and quotient is rounded to  *)
(* the nearest unit, results of magnitude >= Inf / SCALE overflow to       *)
(* +-Inf, and 0/0, Inf - Inf, 0 * Inf give NaN, whose comparisons are all  *)
(* false.                                                                  *)
(***************************************************************************)
EXTENDS Integers, Sequences, FiniteSets, TLC

\* ------------------------------------------------------------------------
\* Float arithmetic
\* ------------------------------------------------------------------------
HALF == 10 * 10 * 10
SCALE == HALF * HALF
DIGITS == 3 + 3
Inf == 1000 * SCALE
NaN == Inf + Inf

One == SCALE
Zero == 0

IsNaN(a) == a = NaN
IsInf(a) == a = Inf \/ a = -Inf
IsFinite(a) == ~IsNaN(a) /\ ~IsInf(a)

Abs(a) == IF a < 0 THEN -a ELSE a
Sgn(a) == IF a < 0 THEN -1 ELSE 1

\* overflow to +-Inf
Sat(x) == IF x >= Inf THEN Inf ELSE IF x <= -Inf THEN -Inf ELSE x

FNeg(a) == IF IsNaN(a) THEN NaN ELSE -a

FAbs(a) == IF IsNaN(a) THEN NaN ELSE Abs(a)

FAdd(a, b) ==
  IF IsNaN(a) \/ IsNaN(b) THEN NaN
  ELSE IF IsInf(a) THEN (IF b = -a THEN NaN ELSE a)
  ELSE IF IsInf(b) THEN b
  ELSE Sat(a + b)

FSub(a, b) == FAdd(a, FNeg(b))

\* |a| * |b| / SCALE rounded to nearest, for finite magnitudes
MulMag(a, b) ==
  LET a1 == a \div HALF
      a0 == a % HALF
      b1 == b \div HALF
      b0 == b % HALF
      mid == a1 * b0 + a0 * b1
  IN  IF a1 > 0 /\ b1 > Inf \div a1 THEN Inf
      ELSE Sat(a1 * b1 + mid \div HALF
               + ((mid % HALF) * HALF + a0 * b0 + SCALE \div 2) \div SCALE)

FMul(a, b) ==
  IF IsNaN(a) \/ IsNaN(b) THEN NaN
  ELSE IF IsInf(a) \/ IsInf(b)
       THEN (IF a = 0 \/ b = 0 THEN NaN ELSE Sgn(a) * Sgn(b) * Inf)
  ELSE Sgn(a) * Sgn(b) * MulMag(Abs(a), Abs(b))

\* long division: DIGITS more decimal digits of r / b appended to q
RECURSIVE LongDiv(_, _, _, _)
LongDiv(q, r, b, n) ==
  IF n = 0 THEN (IF 2 * r >= b THEN q + 1 ELSE q)
  ELSE LongDiv(q * 10 + (r * 10) \div b, (r * 10) % b, b, n - 1)

\* |a| * SCALE / |b| rounded to nearest, for finite magnitudes, b > 0
DivMag(a, b) ==
  IF a \div b >= Inf \div SCALE THEN Inf
  ELSE Sat(LongDiv(a \div b, a % b, b, DIGITS))

FDiv(a, b) ==
  IF IsNaN(a) \/ IsNaN(b) THEN NaN
  ELSE IF IsInf(a) THEN (IF IsInf(b) THEN NaN ELSE Sgn(a) * Sgn(b) * Inf)
  ELSE IF IsInf(b) THEN 0
  ELSE IF b = 0 THEN (IF a = 0 THEN NaN ELSE Sgn(a) * Inf)
  ELSE Sgn(a) * Sgn(b) * DivMag(Abs(a), Abs(b))

FGt(a, b) == ~IsNaN(a) /\ ~IsNaN(b) /\ a > b
FLt(a, b) == ~IsNaN(a) /\ ~IsNaN(b) /\ a < b

RECURSIVE FSum(_)
FSum(s) == IF s = <<>> THEN Zero ELSE FAdd(FSum(SubSeq(s, 1, Len(s) - 1)), s[Len(s)])

\* base-2 logarithm of a positive finite float: exact on powers of two,
\* linear interpolation between consecutive powers of two elsewhere
RECURSIVE Log2(_)
Log2(x) ==
  IF x >= 2 * One THEN FAdd(One, Log2(x \div 2))
  ELSE IF x < One THEN FSub(Log2(2 * x), One)
  ELSE x - One

\* ------------------------------------------------------------------------
\* Values of the information-weight kernel: r + e * EPS with r, e floats.
\* EPS = 1e-11 is far below one unit of r, so order is lexicographic.
\* ------------------------------------------------------------------------
Ext(x) == [r |-> x, e |-> Zero]
EPS == [r |-> Zero, e |-> One]

ExtAdd(a, b) == [r |-> FAdd(a.r, b.r), e |-> FAdd(a.e, b.e)]
\* product, dropping the EPS * EPS term
ExtMul(a, b) == [r |-> FMul(a.r, b.r), e |-> FAdd(FMul(a.r, b.e), FMul(a.e, b.r))]
ExtGe(a, b) == a.r > b.r \/ (a.r = b.r /\ a.e >= b.e)
ExtGt(a, b) == a.r > b.r \/ (a.r = b.r /\ a.e > b.e)

\* ------------------------------------------------------------------------
\* Sparse matrices.  Sequences are 1-based; the offsets stored in indptr
\* and the column numbers stored in indices / col / row are the program's
\* 0-based values.
\* ------------------------------------------------------------------------
RECURSIVE Concat(_)
Concat(ss) == IF ss = <<>> THEN <<>> ELSE Concat(SubSeq(ss, 1, Len(ss) - 1)) \o ss[Len(ss)]

\* the CSR matrix whose i-th row stores the <<column, value>> pairs rows[i]
FromRows(rows) ==
  LET flat == Concat(rows)
  IN  [indptr  |-> [p \in 1..(Len(rows) + 1) |-> Len(Concat(SubSeq(rows, 1, p - 1)))],
       indices |-> [p \in 1..Len(flat) |-> flat[p][1]],
       data    |-> [p \in 1..Len(flat) |-> flat[p][2]]]

NRows(m) == Len(m.indptr) - 1
RowStart(m, i) == m.indptr[i]
RowEnd(m, i) == m.indptr[i + 1]
RowRange(m, i) == (RowStart(m, i) + 1)..RowEnd(m, i)

\* sorted column indices without duplicates in every row
Canonical(m) ==
  \A i \in 1..NRows(m) : \A p, q \in RowRange(m, i) : p < q => m.indices[p] < m.indices[q]

\* scipy csr_matrix.tocoo().copy(): expands indptr into one row number per
\* stored entry; the column and value arrays are fresh copies
tocoo(m) ==
  [row  |-> [p \in 1..Len(m.indices) |->
               (CHOOSE i \in 1..NRows(m) : p \in RowRange(m, i)) - 1],
   col  |-> m.indices,
   data |-> m.data,
   nrows |-> NRows(m)]

RECURSIVE SortedSeq(_)
SortedSeq(S) ==
  IF S = {} THEN <<>>
  ELSE LET x == CHOOSE y \in S : \A z \in S : y <= z
       IN  <<x>> \o SortedSeq(S \ {x})

RECURSIVE ExtSum(_, _)
ExtSum(d, ps) == IF ps = <<>> THEN Ext(Zero) ELSE ExtAdd(d[ps[1]], ExtSum(d, Tail(ps)))

\* scipy coo_matrix.tocsr(): entries are grouped by row, the column indices
\* of a row are sorted and the values of duplicate (row, column) entries
\* are summed; stored zeros are kept
tocsr(c) ==
  LET at(r, j) == {p \in 1..Len(c.row) : c.row[p] = r /\ c.col[p] = j}
      cols(r) == SortedSeq({c.col[p] : p \in {q \in 1..Len(c.row) : c.row[q] = r}})
      outrow(r) == [n \in 1..Len(cols(r)) |->
                      LET ps == SortedSeq(at(r, cols(r)[n]))
                      IN  <<cols(r)[n],
                            IF Len(ps) = 1 THEN c.data[ps[1]] ELSE ExtSum(c.data, ps)>>]
  IN  FromRows([r \in 1..c.nrows |-> outrow(r - 1)])

\* scipy csr_matrix.tocsr().copy().astype(np.float32): a fresh CSR matrix
\* with the same arrays (the model has one float precision)
csr_copy(m) == [indptr |-> m.indptr, indices |-> m.indices, data |-> m.data]

\* result.data = new_data followed by eliminate_zeros(): the entries whose
\* new value is 0 are dropped from the structure
set_data_eliminate_zeros(m, d) ==
  FromRows([r \in 1..NRows(m) |->
              LET keep == SortedSeq({p \in RowRange(m, r) : d[p] # Zero})
              IN  [n \in 1..Len(keep) |-> <<m.indices[keep[n]], d[keep[n]]>>]])

\* result.data = new_data
set_data(m, d) == [m EXCEPT !.data = d]

\* ------------------------------------------------------------------------
\* Inputs
\* ------------------------------------------------------------------------
NDocs == 2

\* passes of the while loop the model follows for one row
IterCap == 30

HalfV == One \div 2
Quarter == One \div 4

\* rows of the matrices given to the information-weight kernel; the last
\* one stores an entry in column 2, beyond the two columns of frequencies_j
IWRowChoices ==
  { <<>>,
    << <<0, Ext(2 * One)>>, <<1, Ext(One)>> >>,
    << <<2, Ext(One)>> >> }

IWMatrices == {FromRows(rs) : rs \in [1..NDocs -> IWRowChoices]}

DocRows1 == { <<One>> }
DocRows2 == { <<HalfV, HalfV>>, <<Zero, Zero>> }

\* frequencies_i with NDocs rows, or one row short
IWDocFactors ==
  UNION {[1..n -> DocRows1] \cup [1..n -> DocRows2] : n \in (NDocs - 1)..NDocs}

IWTermFactors ==
  { << <<HalfV, Quarter>> >>,
    << <<One, Zero>>, <<Quarter, HalfV>> >>,
    << <<Zero, Zero>>, <<Zero, Zero>> >>,
    << <<One, HalfV>>, <<HalfV, One>> >> }

IWTokens == { <<One>>, <<One, One>>, <<4 * One, 4 * One>>, <<One, 4 * One>> }

\* rows of the matrices given to the EM kernel: L1-normalized or empty
EMRowChoices ==
  { <<>>,
    << <<0, HalfV>>, <<1, HalfV>> >>,
    << <<0, Quarter>>, <<1, 3 * Quarter>> >>,
    << <<0, One>>, <<1, Zero>> >> }

EMMatrices == UNION {{FromRows(rs) : rs \in [1..n -> EMRowChoices]} : n \in 1..NDocs}

BgDocRows == { <<One, Zero>>, <<Zero, One>> }

BgTermFactors ==
  { << <<HalfV, HalfV>>, <<One, Zero>> >>,
    << <<HalfV, HalfV>>, <<Zero, Zero>> >> }

\* precision, low_thresh, bg_prior: the defaults of lines 185-187 first
EMParams ==
  { <<One \div 10000, One \div 100000, 5 * One>>,
    <<One \div 10000, (3 * One) \div 10, 5 * One>>,
    <<One \div 10000, (6 * One) \div 10, 5 * One>>,
    <<One \div 10, One \div 100000, Zero>> }

\* values an out-of-bounds read may return
Garbage == {Zero, 2 * One}

\* ------------------------------------------------------------------------
\* State
\* ------------------------------------------------------------------------
VARIABLES
  call,            \* the function the caller invokes
  pc,              \* "call", "iw_loop", "em_row", "em_loop", "em_thresh", "done", "crashed"
  matrix,          \* the caller's sparse matrix (CSR arrays)
  frequencies_i, frequencies_j, tokens_per_doc,   \* information-weight factors
  background_i, background_j,                     \* EM background factors
  precision, low_thresh, bg_prior,
  result_matrix,   \* the adapter's local `result` (lines 48, 254)
  args,            \* whose arrays the kernel was handed: "copy" or "caller"
  row, col, idx, info_weight,                     \* numba_info_weight_matrix
  i, row_background, mix_param, current_dist, last_estimated_dist,
  change_magnitude, norm, result, mix_weights,   \* numba_multinomial_em_sparse
  iterations,      \* passes of the while loop made for the current row
  out              \* the value returned to the caller

inputs == <<matrix, frequencies_i, frequencies_j, tokens_per_doc,
            background_i, background_j, precision, low_thresh, bg_prior>>
iw_locals == <<row, col, idx, info_weight>>
em_locals == <<i, row_background, mix_param, current_dist, last_estimated_dist,
               change_magnitude, norm, result, mix_weights, iterations>>
vars == <<call, pc, inputs, result_matrix, args, iw_locals, em_locals, out>>

None == <<>>
\* a local that has not been assigned yet
Unset == NaN + 1

IWCalls == {"info_weight_matrix", "numba_info_weight_matrix"}
EMCalls == {"multinomial_em_sparse", "numba_multinomial_em_sparse"}

\* nothing has run yet
Fresh ==
  /\ pc = "call"
  /\ result_matrix = None /\ args = "copy"
  /\ row = None /\ col = None /\ idx = 0 /\ info_weight = EPS
  /\ i = 0 /\ row_background = None /\ mix_param = Unset /\ current_dist = None
  /\ last_estimated_dist = None /\ change_magnitude = Unset /\ norm = Unset
  /\ result = None /\ mix_weights = None /\ iterations = 0
  /\ out = None

\* a caller about to weight a matrix
IWInit ==
  /\ call \in IWCalls
  /\ matrix \in IWMatrices
  /\ frequencies_i \in IWDocFactors
  /\ frequencies_j \in IWTermFactors
  /\ tokens_per_doc \in IWTokens
  /\ background_i = None /\ background_j = None
  /\ precision = Zero /\ low_thresh = Zero /\ bg_prior = Zero
  /\ Fresh

\* a caller about to remove the background of a matrix
EMInit ==
  /\ call \in EMCalls
  /\ matrix \in EMMatrices
  /\ background_i \in [1..NRows(matrix) -> BgDocRows]
  /\ background_j \in BgTermFactors
  /\ \E p \in EMParams :
       precision = p[1] /\ low_thresh = p[2] /\ bg_prior = p[3]
  /\ frequencies_i = None /\ frequencies_j = None /\ tokens_per_doc = None
  /\ Fresh

Init == IWInit \/ EMInit

\* ------------------------------------------------------------------------
\* numba_info_weight_matrix / info_weight_matrix
\* ------------------------------------------------------------------------
\* Array reads.  numba compiles without bounds checks: a read outside the
\* array returns whatever the memory holds (g) or faults.
InI(Fi, r, k) == r \in 1..Len(Fi) /\ k \in 1..Len(Fi[r])
InJ(Fj, k, j) == k \in 1..Len(Fj) /\ j \in 1..Len(Fj[k])
InT(tp, k) == k \in 1..Len(tp)

ReadI(Fi, r, k, g) == IF InI(Fi, r, k) THEN Fi[r][k] ELSE g
ReadJ(Fj, k, j, g) == IF InJ(Fj, k, j) THEN Fj[k][j] ELSE g
ReadT(tp, k, g) == IF InT(tp, k) THEN tp[k] ELSE g

\* col_prob = frequencies_j[k, j] * tokens_per_doc[k]
ColProb(Fj, tp, k, j, g) == FMul(ReadJ(Fj, k, j + 1, g), ReadT(tp, k, g))

\* the contribution without its minus sign
ContributionPositive(f, col_prob) == FMul(f, Log2(col_prob))

\* -frequencies_i[i, k] * np.log2(col_prob)
Contribution(f, col_prob) == FMul(FNeg(f), Log2(col_prob))

\* info_weight after the topics 0 .. k-1 of the inner loop, for the entry
\* in row r (0-based) and column j (0-based)
RECURSIVE InfoWeightLoop(_, _, _, _, _, _, _)
InfoWeightLoop(k, r, j, Fi, Fj, tp, g) ==
  IF k = 0 THEN EPS
  ELSE LET prev == InfoWeightLoop(k - 1, r, j, Fi, Fj, tp, g)
           col_prob == ColProb(Fj, tp, k, j, g)
       IN  IF FGt(col_prob, Zero)
           THEN ExtAdd(prev, Ext(Contribution(ReadI(Fi, r + 1, k, g), col_prob)))
           ELSE prev

\* frequencies_i.shape[1]
Shape1(F) == Len(F[1])

InfoWeight(r, j, Fi, Fj, tp, g) == InfoWeightLoop(Shape1(Fi), r, j, Fi, Fj, tp, g)

\* some read made for the entry (r, j) is out of bounds
OutOfBounds(r, j, Fi, Fj, tp) ==
  \E k \in 1..Shape1(Fi) :
     \/ ~InJ(Fj, k, j + 1)
     \/ ~InT(tp, k)
     \/ /\ ~InI(Fi, r + 1, k)
        /\ \E g \in Garbage : FGt(ColProb(Fj, tp, k, j, g), Zero)

\* the array the kernel's val parameter refers to
Val == IF args = "caller" THEN matrix.data ELSE result_matrix.data

\* info_weight_matrix without the copy: the kernel is handed the caller's
\* value array
info_weight_matrix_call_shared ==
  /\ pc = "call" /\ call = "info_weight_matrix"
  /\ result_matrix' = tocoo(matrix)
  /\ args' = "caller"
  /\ row' = tocoo(matrix).row /\ col' = tocoo(matrix).col
  /\ idx' = 1
  /\ pc' = "iw_loop"
  /\ UNCHANGED <<call, inputs, info_weight, em_locals, out>>

\* info_weight_matrix, lines 48-57: copy the matrix to COO form and hand
\* the copy's arrays to the kernel
info_weight_matrix_call ==
  /\ pc = "call" /\ call = "info_weight_matrix"
  /\ result_matrix' = tocoo(matrix)
  /\ args' = "copy"
  /\ row' = tocoo(matrix).row /\ col' = tocoo(matrix).col
  /\ idx' = 1
  /\ pc' = "iw_loop"
  /\ UNCHANGED <<call, inputs, info_weight, em_locals, out>>

\* the kernel called on the caller's own COO arrays (row, col, val)
numba_info_weight_matrix_call ==
  /\ pc = "call" /\ call = "numba_info_weight_matrix"
  /\ args' = "caller"
  /\ row' = tocoo(matrix).row /\ col' = matrix.indices
  /\ idx' = 1
  /\ pc' = "iw_loop"
  /\ UNCHANGED <<call, inputs, result_matrix, info_weight, em_locals, out>>

\* lines 32-42: one pass of the loop over the stored entries
numba_info_weight_matrix_entry ==
  /\ pc = "iw_loop" /\ idx <= Len(row)
  /\ \E g \in (IF OutOfBounds(row[idx], col[idx], frequencies_i, frequencies_j, tokens_per_doc)
               THEN Garbage ELSE {Zero}) :
       LET w == InfoWeight(row[idx], col[idx], frequencies_i, frequencies_j, tokens_per_doc, g)
           v == ExtMul(Val[idx], w)
       IN  /\ info_weight' = w
           /\ IF args = "caller"
              THEN /\ matrix' = [matrix EXCEPT !.data[idx] = v]
                   /\ UNCHANGED result_matrix
              ELSE /\ result_matrix' = [result_matrix EXCEPT !.data[idx] = v]
                   /\ UNCHANGED matrix
  /\ idx' = idx + 1
  /\ UNCHANGED <<call, pc, frequencies_i, frequencies_j, tokens_per_doc,
                 background_i, background_j, precision, low_thresh, bg_prior,
                 args, row, col, em_locals, out>>

\* an out-of-bounds read faults
numba_info_weight_matrix_fault ==
  /\ pc = "iw_loop" /\ idx <= Len(row)
  /\ OutOfBounds(row[idx], col[idx], frequencies_i, frequencies_j, tokens_per_doc)
  /\ pc' = "crashed"
  /\ UNCHANGED <<call, inputs, result_matrix, args, iw_locals, em_locals, out>>

\* line 44 and, in the adapter, lines 58-60
info_weight_matrix_return ==
  /\ pc = "iw_loop" /\ idx > Len(row)
  /\ out' = IF call = "info_weight_matrix" THEN tocsr(result_matrix) ELSE Val
  /\ pc' = "done"
  /\ UNCHANGED <<call, inputs, result_matrix, args, iw_locals, em_locals>>

\* ------------------------------------------------------------------------
\* numba_multinomial_em_sparse / multinomial_em_sparse
\* ------------------------------------------------------------------------
VScale(c, v) == [n \in 1..Len(v) |-> FMul(c, v[n])]
VDiv(v, c) == [n \in 1..Len(v) |-> FDiv(v[n], c)]
VAddC(v, c) == [n \in 1..Len(v) |-> FAdd(v[n], c)]
VAdd(u, v) == [n \in 1..Len(u) |-> FAdd(u[n], v[n])]
VMul(u, v) == [n \in 1..Len(u) |-> FMul(u[n], v[n])]
Zeros(n) == [p \in 1..n |-> Zero]

\* the arrays the kernel's indptr, inds, data parameters refer to
Arg == IF args = "caller" THEN matrix ELSE result_matrix

\* a[: indptr[i + 1]]: the slice that forgets where the row starts
RowSliceFromStart(a, indptr, r) == SubSeq(a, 1, indptr[r + 1])

\* a[indptr[i] : indptr[i + 1]], i 1-based here
RowSlice(a, indptr, r) == SubSeq(a, indptr[r] + 1, indptr[r + 1])

\* lines 192-193
mp(bgp) == FAdd(One, FMul(One, FSum(<<One, bgp>>)))

\* lines 202-205: bg_val for column j (0-based) and the factor row bi
RECURSIVE BgVal(_, _, _, _)
BgVal(k, bi, bj, j) ==
  IF k = 0 THEN Zero
  ELSE FAdd(BgVal(k - 1, bi, bj, j), FMul(bi[k], bj[k][j + 1]))

\* lines 199-207
RowBackground(indices, bi, bj) ==
  LET raw == [n \in 1..Len(indices) |-> BgVal(Len(bi), bi, bj, indices[n])]
  IN  VDiv(raw, FSum(raw))

\* lines 209-215: the loop state at the start of a row
RowInit(row_data, rb, prec) ==
  LET m == HalfV
      cd == VAdd(VScale(m, row_data), VScale(FSub(One, m), rb))
  IN  [mix_param |-> m,
       current_dist |-> cd,
       last_estimated_dist |-> VAddC(VScale(m, cd), FSub(One, m)),
       change_magnitude |-> FAdd(One, prec),
       norm |-> Unset]

\* the loop condition without the convergence test
LoopCondMixOnly(st, prec) ==
  /\ FGt(st.mix_param, One \div 100)
  /\ FLt(st.mix_param, FSub(One, One \div 100))

\* lines 217-219
LoopCond(st, prec) ==
  /\ FGt(st.change_magnitude, prec)
  /\ FGt(st.mix_param, One \div 100)
  /\ FLt(st.mix_param, FSub(One, One \div 100))

\* lines 221-234
Reestimate(st, row_data, rb, bgp) ==
  LET m == st.mix_param
      cd == st.current_dist
      posterior_dist == [n \in 1..Len(cd) |->
                           FDiv(FMul(cd[n], m),
                                FAdd(FMul(cd[n], m), FMul(rb[n], FSub(One, m))))]
      cd1 == VMul(posterior_dist, row_data)
      m1 == FDiv(FAdd(FSum(cd1), One), mp(bgp))
      cd2 == VDiv(cd1, FSum(cd1))
      estimated_dist == VAddC(VScale(m1, cd2), FSub(One, m1))
      change_vec == [n \in 1..Len(cd) |->
                       FDiv(FAbs(FSub(estimated_dist[n], st.last_estimated_dist[n])),
                            estimated_dist[n])]
  IN  [mix_param |-> m1,
       current_dist |-> cd2,
       last_estimated_dist |-> estimated_dist,
       change_magnitude |-> FSum(change_vec),
       norm |-> st.norm]

\* lines 237-242: the entries kept by the threshold, and their sum
Kept(cd, low) == [n \in 1..Len(cd) |-> IF FLt(cd[n], low) THEN Zero ELSE cd[n]]

RECURSIVE NormOf(_, _, _)
NormOf(cd, low, n) ==
  IF n = 0 THEN Zero
  ELSE IF FLt(cd[n], low) THEN NormOf(cd, low, n - 1)
  ELSE FAdd(NormOf(cd, low, n - 1), cd[n])

\* lines 236-243
Sparsify(st, low) ==
  LET nm == NormOf(st.current_dist, low, Len(st.current_dist))
  IN  [st EXCEPT !.norm = nm, !.current_dist = VDiv(Kept(st.current_dist, low), nm)]

\* the kernel's loop variables as one record
LoopState ==
  [mix_param |-> mix_param, current_dist |-> current_dist,
   last_estimated_dist |-> last_estimated_dist,
   change_magnitude |-> change_magnitude, norm |-> norm]

SetLoopState(st) ==
  /\ mix_param' = st.mix_param
  /\ current_dist' = st.current_dist
  /\ last_estimated_dist' = st.last_estimated_dist
  /\ change_magnitude' = st.change_magnitude
  /\ norm' = st.norm

\* lines 189-190: the output arrays
Allocate(m) ==
  /\ result' = Zeros(Len(m.data))
  /\ mix_weights' = Zeros(NRows(m))
  /\ i' = 1

\* multinomial_em_sparse, lines 254-264: copy the matrix and hand the
\* copy's arrays to the kernel
multinomial_em_sparse_call ==
  /\ pc = "call" /\ call = "multinomial_em_sparse"
  /\ result_matrix' = csr_copy(matrix)
  /\ args' = "copy"
  /\ Allocate(matrix)
  /\ pc' = "em_row"
  /\ UNCHANGED <<call, inputs, iw_locals, row_background, mix_param, current_dist,
                 last_estimated_dist, change_magnitude, norm, iterations, out>>

\* the kernel called on the caller's own CSR arrays
numba_multinomial_em_sparse_call ==
  /\ pc = "call" /\ call = "numba_multinomial_em_sparse"
  /\ args' = "caller"
  /\ Allocate(matrix)
  /\ pc' = "em_row"
  /\ UNCHANGED <<call, inputs, result_matrix, iw_locals, row_background, mix_param,
                 current_dist, last_estimated_dist, change_magnitude, norm, iterations, out>>

\* lines 195-215
em_row_start ==
  /\ pc = "em_row" /\ i <= NRows(Arg)
  /\ LET indices == RowSlice(Arg.indices, Arg.indptr, i)
         row_data == RowSlice(Arg.data, Arg.indptr, i)
         rb == RowBackground(indices, background_i[i], background_j)
     IN  /\ row_background' = rb
         /\ SetLoopState(RowInit(row_data, rb, precision))
  /\ iterations' = 0
  /\ pc' = "em_loop"
  /\ UNCHANGED <<call, inputs, result_matrix, args, iw_locals, i, result, mix_weights, out>>

\* lines 217-234
em_reestimate ==
  /\ pc = "em_loop" /\ LoopCond(LoopState, precision)
  /\ iterations < IterCap
  /\ iterations' = iterations + 1
  /\ SetLoopState(Reestimate(LoopState, RowSlice(Arg.data, Arg.indptr, i),
                             row_background, bg_prior))
  /\ pc' = "em_thresh"
  /\ UNCHANGED <<call, inputs, result_matrix, args, iw_locals, i, row_background,
                 result, mix_weights, out>>

\* lines 236-243
em_sparsify ==
  /\ pc = "em_thresh"
  /\ SetLoopState(Sparsify(LoopState, low_thresh))
  /\ pc' = "em_loop"
  /\ UNCHANGED <<call, inputs, result_matrix, args, iw_locals, i, row_background,
                 result, mix_weights, iterations, out>>

\* lines 245-246
em_row_store ==
  /\ pc = "em_loop" /\ ~LoopCond(LoopState, precision)
  /\ result' = [p \in 1..Len(result) |->
                  IF p \in RowRange(Arg, i) THEN current_dist[p - RowStart(Arg, i)]
                  ELSE result[p]]
  /\ mix_weights' = [mix_weights EXCEPT ![i] = mix_param]
  /\ i' = i + 1
  /\ pc' = "em_row"
  /\ UNCHANGED <<call, inputs, result_matrix, args, iw_locals, row_background, mix_param,
                 current_dist, last_estimated_dist, change_magnitude, norm, iterations, out>>

\* line 248 and, in the adapter, lines 265-267
multinomial_em_sparse_return ==
  /\ pc = "em_row" /\ i > NRows(Arg)
  /\ IF call = "multinomial_em_sparse"
     THEN /\ result_matrix' = set_data(result_matrix, result)
          /\ out' = <<set_data(result_matrix, result), mix_weights>>
     ELSE /\ UNCHANGED result_matrix
          /\ out' = <<result, mix_weights>>
  /\ pc' = "done"
  /\ UNCHANGED <<call, inputs, args, iw_locals, em_locals>>

IWNext ==
  \/ info_weight_matrix_call
  \/ numba_info_weight_matrix_call
  \/ numba_info_weight_matrix_entry
  \/ numba_info_weight_matrix_fault
  \/ info_weight_matrix_return

EMNext ==
  \/ multinomial_em_sparse_call
  \/ numba_multinomial_em_sparse_call
  \/ em_row_start
  \/ em_reestimate
  \/ em_sparsify
  \/ em_row_store
  \/ multinomial_em_sparse_return

Next == IWNext \/ EMNext

Spec == Init /\ [][Next]_vars

\* ------------------------------------------------------------------------
\* Shapes
\* ------------------------------------------------------------------------
\* 0-based row number of the stored entry at position p
RowOf(m, p) == (CHOOSE r \in 1..NRows(m) : p \in RowRange(m, r)) - 1

\* the shapes the information-weight kernel expects
WellFormed ==
  /\ Shape1(frequencies_i) = Len(frequencies_j)
  /\ Shape1(frequencies_i) = Len(tokens_per_doc)
  /\ \A p \in 1..Len(matrix.indices) :
       /\ matrix.indices[p] < Len(frequencies_j[1])
       /\ RowOf(matrix, p) < Len(frequencies_i)

Malformed == ~WellFormed

\* ------------------------------------------------------------------------
\* Properties
\* ------------------------------------------------------------------------

\* C1: for a canonical CSR input, the matrix returned by info_weight_matrix
\* and by multinomial_em_sparse has the input's row pointers and column
\* indices; entries zeroed by the EM threshold stay stored.
C1_SameStructure ==
  (pc = "done" /\ Canonical(matrix)) =>
     /\ call = "info_weight_matrix" =>
          /\ out.indptr = matrix.indptr
          /\ out.indices = matrix.indices
          /\ Len(out.data) = Len(matrix.data)
     /\ call = "multinomial_em_sparse" =>
          /\ out[1].indptr = matrix.indptr
          /\ out[1].indices = matrix.indices
          /\ Len(out[1].data) = Len(matrix.data)

\* multinomial_em_sparse has returned a matrix in which the threshold
\* zeroed an entry whose input value was not zero
C1_Witness ==
  /\ pc = "done" /\ call = "multinomial_em_sparse"
  /\ \E p \in 1..Len(matrix.data) : matrix.data[p] # Zero /\ out[1].data[p] = Zero

C3_InfoWeightFloor ==
  (call \in IWCalls /\ WellFormed /\ pc \in {"iw_loop", "done"} /\ idx > 1) =>
     ExtGe(info_weight, EPS)

\* C4: with malformed shapes the information-weight call on a matrix that
\* stores an entry does not return, and stops before any entry is rescaled.
C4_ShapeMismatchFailsFast ==
  (call \in IWCalls /\ Malformed /\ Len(matrix.indices) > 0) =>
     /\ pc # "done"
     /\ pc = "iw_loop" => idx = 1

\* C5: the EM kernel never writes NaN or Inf into the output values or the
\* mixing weights.
C5_NoNaNOrInf ==
  call \in EMCalls =>
     /\ \A p \in DOMAIN result : IsFinite(result[p])
     /\ \A r \in DOMAIN mix_weights : IsFinite(mix_weights[r])

\* C6: the mixing weight stored for a processed row lies in [0, 1].
C6_MixWeightInUnitInterval ==
  call \in EMCalls =>
     \A r \in DOMAIN mix_weights :
        r < i => (IsFinite(mix_weights[r]) /\ Zero <= mix_weights[r] /\ mix_weights[r] <= One)

\* x is 1 up to the rounding of n summands
NearOne(x, n) == IsFinite(x) /\ Abs(x - One) <= n

\* C7: for a row that the threshold has not zeroed entirely, current_dist
\* sums to 1 after the renormalization of line 227 and again after the
\* renormalization of line 243.
C7_DistSumsToOne ==
  (/\ call \in EMCalls
   /\ Len(current_dist) > 0
   /\ norm # Zero
   /\ pc = "em_thresh" \/ (pc = "em_loop" /\ norm # Unset)) =>
     NearOne(FSum(current_dist), Len(current_dist))

\* the single row [0.5, 0.5] whose background projection is [0.5, 0.5],
\* with the default precision, low_thresh and bg_prior
Scenario2 ==
  /\ matrix = FromRows(<< << <<0, HalfV>>, <<1, HalfV>> >> >>)
  /\ background_i = << <<One, Zero>> >>
  /\ background_j[1] = <<HalfV, HalfV>>
  /\ precision = One \div 10000 /\ low_thresh = One \div 100000 /\ bg_prior = 5 * One

\* C8: the while loop of every row exits: whenever its condition holds the
\* pass is made (the model's cap is never what stops it), and in Scenario2
\* it exits with change_magnitude no larger than precision.
C8_LoopExits ==
  (call \in EMCalls /\ pc = "em_loop") =>
     /\ LoopCond(LoopState, precision) => iterations < IterCap
     /\ (Scenario2 /\ ~LoopCond(LoopState, precision)) =>
          (IsFinite(change_magnitude) /\ change_magnitude <= precision)

\* Scenario2 has left the loop after some passes, below precision
C8_Witness ==
  /\ call \in EMCalls /\ pc = "done" /\ Scenario2
  /\ iterations > 1
  /\ IsFinite(change_magnitude) /\ change_magnitude <= precision
  /\ IsFinite(mix_weights[1])

\* row r of the caller's matrix processed on its own: the final loop state
RECURSIVE RunLoop(_, _, _, _, _, _)
RunLoop(st, row_data, rb, prec, low, bgp) ==
  IF LoopCond(st, prec)
  THEN RunLoop(Sparsify(Reestimate(st, row_data, rb, bgp), low), row_data, rb, prec, low, bgp)
  ELSE st

RunRow(r) ==
  LET n == matrix.indptr[r + 1] - matrix.indptr[r]
      row_data == [q \in 1..n |-> matrix.data[matrix.indptr[r] + q]]
      indices == [q \in 1..n |-> matrix.indices[matrix.indptr[r] + q]]
      rb == RowBackground(indices, background_i[r], background_j)
  IN  RunLoop(RowInit(row_data, rb, precision), row_data, rb, precision, low_thresh, bg_prior)

\* C9: storing row i writes only the positions of row i, and what it
\* writes, like the row's mixing weight, is what row i alone determines;
\* rescaling the entry idx writes only position idx.
C9_RowsIndependent ==
  [][/\ (call \in EMCalls /\ pc = "em_loop" /\ pc' = "em_row") =>
          \E alone \in {RunRow(i)} :
             /\ result' = [p \in 1..Len(result) |->
                             IF p \in RowRange(matrix, i)
                             THEN alone.current_dist[p - RowStart(matrix, i)]
                             ELSE result[p]]
             /\ mix_weights' = [mix_weights EXCEPT ![i] = alone.mix_param]
     /\ (call \in IWCalls /\ pc = "iw_loop" /\ pc' = "iw_loop") =>
          \A p \in 1..Len(row) : p # idx => Val'[p] = Val[p]]_vars

\* a two-row EM call has finished with different finite mixing weights
C9_Witness ==
  /\ call \in EMCalls /\ pc = "done"
  /\ NRows(matrix) = 2
  /\ IsFinite(mix_weights[1]) /\ IsFinite(mix_weights[2])
  /\ mix_weights[1] # mix_weights[2]

\* frequencies_j / tokens_per_doc of the same shapes in which col_prob is
\* smaller for every topic at column j
Decreased(Fj2, tp2, j) ==
  /\ Len(Fj2) = Len(frequencies_j) /\ Len(tp2) = Len(tokens_per_doc)
  /\ \A k \in 1..Len(Fj2) :
       /\ Len(Fj2[k]) = Len(frequencies_j[k])
       /\ ColProb(Fj2, tp2, k, j, Zero) < ColProb(frequencies_j, tokens_per_doc, k, j, Zero)

\* the entry idx - 1 has just been rescaled by info_weight_matrix and its
\* input value is positive
Rescaled ==
  /\ call = "info_weight_matrix" /\ WellFormed /\ pc = "iw_loop" /\ idx > 1
  /\ matrix.data[idx - 1].r > Zero

\* some topic has a positive weight in document r (0-based)
SomeTopic(r) == \E k \in 1..Shape1(frequencies_i) : frequencies_i[r + 1][k] > Zero

\* C10 as stated, for a document that gives some topic a positive weight:
\* decreasing col_prob for every topic, a decrease to 0 included, strictly
\* increases the entry's info_weight and reweighted value.
C10_Monotone ==
  (Rescaled /\ SomeTopic(row[idx - 1])) =>
    \A Fj2 \in IWTermFactors, tp2 \in IWTokens :
       Decreased(Fj2, tp2, col[idx - 1]) =>
          LET w2 == InfoWeight(row[idx - 1], col[idx - 1], frequencies_i, Fj2, tp2, Zero)
          IN  /\ ExtGt(w2, info_weight)
              /\ ExtGt(ExtMul(matrix.data[idx - 1], w2), result_matrix.data[idx - 1])

\* C10 amended: decreasing col_prob for every topic to a value that is still
\* positive strictly increases the info_weight and the reweighted value of an
\* entry whose document gives some topic a positive weight.
C10_MonotoneWhilePositive ==
  (Rescaled /\ SomeTopic(row[idx - 1])) =>
    \A Fj2 \in IWTermFactors, tp2 \in IWTokens :
       (/\ Decreased(Fj2, tp2, col[idx - 1])
        /\ \A k \in 1..Len(Fj2) : ColProb(Fj2, tp2, k, col[idx - 1], Zero) > Zero) =>
          LET w2 == InfoWeight(row[idx - 1], col[idx - 1], frequencies_i, Fj2, tp2, Zero)
          IN  /\ ExtGt(w2, info_weight)
              /\ ExtGt(ExtMul(matrix.data[idx - 1], w2), result_matrix.data[idx - 1])

C10_Witness ==
  /\ Rescaled /\ SomeTopic(row[idx - 1])
  /\ \E Fj2 \in IWTermFactors, tp2 \in IWTokens :
       /\ Decreased(Fj2, tp2, col[idx - 1])
       /\ \A k \in 1..Len(Fj2) : ColProb(Fj2, tp2, k, col[idx - 1], Zero) > Zero

====
